---- MODULE Spec2Model ----
(***************************************************************************)
(* Model of src/meminfo.c: the /proc/meminfo parser (get_entry,            *)
(* get_entry_fatal, available_guesstimate, parse_meminfo) and the          *)
(* per-process accessors (is_alive, get_oom_score, get_oom_score_adj,      *)
(* get_comm, get_uid, get_vm_rss_kib).                                     *)
(*                                                                         *)
(* Text is modelled byte by byte: a C string is a sequence of one-byte     *)
(* strings, and strstr, strtol, fread and fscanf work on such sequences.   *)
(***************************************************************************)
EXTENDS Integers, Sequences, FiniteSets, TLC

VARIABLES
    meminfo,            \* what /proc/meminfo currently delivers
    fd,                 \* static FILE* fd of parse_meminfo: open or NULL, offset
    guesstimate_warned, \* static int guesstimate_warned of parse_meminfo
    divZero,            \* what the build does on an integer division by zero
    status,             \* "running", or how the process ended
    call,               \* observation of the last parse_meminfo call
    warnCount,          \* history: number of MemAvailable warnings printed
    estCalls,           \* history: number of calls whose estimator returned
    probe,              \* a source content singled out for comparison
    probeSnap,          \* history: snapshot first returned for probe
    entry,              \* observation of the last get_entry(_fatal) call
    page_size,          \* static int page_size of get_vm_rss_kib
    ret                 \* observation of the last per-process accessor call

vars == <<meminfo, fd, guesstimate_warned, divZero, status, call, warnCount, estCalls,
          probe, probeSnap, entry, page_size, ret>>

memVars == <<meminfo, fd, guesstimate_warned, divZero, call, warnCount, estCalls,
             probe, probeSnap>>

----------------------------------------------------------------------------
(* Bounds of the model *)

\* Calls of parse_meminfo that estimate are counted up to this cap.
MaxCalls == 3

\* Longest process name (between the parentheses) in a modelled stat file.
MaxStatName == 3

----------------------------------------------------------------------------
(* Bytes and C library primitives *)

DigitSeq == <<"0", "1", "2", "3", "4", "5", "6", "7", "8", "9">>

Digits == {DigitSeq[i] : i \in 1..10}

DigitVal(c) == (CHOOSE i \in 1..10 : DigitSeq[i] = c) - 1

\* isspace() for the bytes that occur in the modelled files
IsSpace(c) == c \in {" ", "\n", "\t"}

\* printf("%ld"): the decimal digits of a non-negative integer
RECURSIVE Format(_)
Format(n) == IF n < 10 THEN <<DigitSeq[n + 1]>>
             ELSE Format(n \div 10) \o <<DigitSeq[(n % 10) + 1]>>

\* name occurs in buf at index i
MatchAt(buf, name, i) == \A j \in 1..Len(name) : buf[i + j - 1] = name[j]

\* strstr(buf, name): index of the first occurrence of name in buf, 0 for NULL
strstr(buf, name) ==
    LET last == Len(buf) - Len(name) + 1
    IN  IF \E i \in 1..last : MatchAt(buf, name, i)
        THEN CHOOSE i \in 1..last :
                 /\ MatchAt(buf, name, i)
                 /\ \A k \in 1..(i - 1) : ~MatchAt(buf, name, k)
        ELSE 0

\* first index >= i of s that holds no white space (Len(s)+1 at the end)
RECURSIVE SkipSpace(_, _)
SkipSpace(s, i) ==
    IF i > Len(s) \/ ~IsSpace(s[i]) THEN i ELSE SkipSpace(s, i + 1)

\* first index >= i of s that holds no decimal digit (Len(s)+1 at the end)
RECURSIVE SkipDigits(_, _)
SkipDigits(s, i) ==
    IF i > Len(s) \/ s[i] \notin Digits THEN i ELSE SkipDigits(s, i + 1)

\* first index >= i of s that holds white space (Len(s)+1 at the end)
RECURSIVE SkipNonSpace(_, _)
SkipNonSpace(s, i) ==
    IF i > Len(s) \/ IsSpace(s[i]) THEN i ELSE SkipNonSpace(s, i + 1)

RECURSIVE DigitsValue(_)
DigitsValue(d) == IF d = <<>> THEN 0
                  ELSE DigitsValue(SubSeq(d, 1, Len(d) - 1)) * 10 + DigitVal(d[Len(d)])

RECURSIVE StripZeros(_)
StripZeros(d) == IF Len(d) > 1 /\ d[1] = "0" THEN StripZeros(Tail(d)) ELSE d

\* LONG_MAX and -LONG_MIN of an LP64 build, as digit strings
LongMaxDigits == <<"9","2","2","3","3","7","2","0","3","6","8","5","4","7","7","5","8","0","7">>
LongMinDigits == <<"9","2","2","3","3","7","2","0","3","6","8","5","4","7","7","5","8","0","8">>

\* the number written d is greater than the number written lim
Exceeds(d, lim) ==
    LET s == StripZeros(d)
    IN  \/ Len(s) > Len(lim)
        \/ /\ Len(s) = Len(lim)
           /\ \E i \in 1..Len(s) :
                  /\ DigitVal(s[i]) > DigitVal(lim[i])
                  /\ \A j \in 1..(i - 1) : s[j] = lim[j]

\* strtol(s + start - 1, NULL, 10): skips white space, takes an optional sign and the
\* longest run of digits. No digits: returns 0 and leaves errno alone (glibc,
\* musl). Out of range: returns LONG_MAX/LONG_MIN and sets errno to ERANGE.
strtol(s, start) ==
    LET i    == SkipSpace(s, start)
        neg  == i <= Len(s) /\ s[i] = "-"
        k    == IF i <= Len(s) /\ s[i] \in {"-", "+"} THEN i + 1 ELSE i
        e    == SkipDigits(s, k)
        d    == SubSeq(s, k, e - 1)
    IN  IF d = <<>> THEN [val |-> 0, errno |-> 0]
        ELSE IF Exceeds(d, IF neg THEN LongMinDigits ELSE LongMaxDigits)
             THEN [val |-> IF neg THEN "LONG_MIN" ELSE "LONG_MAX", errno |-> 34]   \* ERANGE
             ELSE [val |-> IF neg THEN 0 - DigitsValue(d) ELSE DigitsValue(d),
                   errno |-> 0]

\* fread(buf, 1, cap, f) on a stream at offset pos: the bytes read
fread(content, pos, cap) ==
    SubSeq(content, pos + 1,
           IF Len(content) < pos + cap THEN Len(content) ELSE pos + cap)

\* C integer division: truncation toward zero (b # 0)
CDiv(a, b) ==
    LET abs(x) == IF x < 0 THEN 0 - x ELSE x
        q      == abs(a) \div abs(b)
    IN  IF (a < 0) = (b < 0) THEN q ELSE 0 - q

----------------------------------------------------------------------------
(* get_entry, get_entry_fatal, available_guesstimate *)

MemTotalL     == <<"M","e","m","T","o","t","a","l",":">>
MemFreeL      == <<"M","e","m","F","r","e","e",":">>
MemAvailableL == <<"M","e","m","A","v","a","i","l","a","b","l","e",":">>
BuffersL      == <<"B","u","f","f","e","r","s",":">>
CachedL       == <<"C","a","c","h","e","d",":">>
SwapCachedL   == <<"S","w","a","p","C","a","c","h","e","d",":">>
SwapTotalL    == <<"S","w","a","p","T","o","t","a","l",":">>
SwapFreeL     == <<"S","w","a","p","F","r","e","e",":">>
ShmemL        == <<"S","h","m","e","m",":">>

get_entry(name, buf) ==
    LET hit == strstr(buf, name)
    IN  IF hit = 0 THEN -1
        ELSE LET r == strtol(buf, hit + Len(name))
             IN  IF r.errno # 0 THEN -1 ELSE r.val

\* fatal(104, ...) ends the process; otherwise the value is returned
get_entry_fatal(name, buf) ==
    LET val == get_entry(name, buf)
    IN  [fatal |-> val = -1, val |-> val]

\* return MemFree + Cached + Buffers - Shmem; unless one of the four is fatal
Guesstimate(Cached, MemFree, Buffers, Shmem) ==
    IF Cached.fatal \/ MemFree.fatal \/ Buffers.fatal \/ Shmem.fatal
    THEN [fatal |-> TRUE, val |-> 0]
    ELSE [fatal |-> FALSE,
          val |-> MemFree.val + Cached.val + Buffers.val - Shmem.val]

available_guesstimate(buf) ==
    Guesstimate(get_entry_fatal(CachedL, buf), get_entry_fatal(MemFreeL, buf),
                get_entry_fatal(BuffersL, buf), get_entry_fatal(ShmemL, buf))

----------------------------------------------------------------------------
(* The contents of /proc/meminfo *)

\* What follows a label: nothing (the line is absent), a decimal integer,
\* a text without digits, or a number beyond LONG_MAX.
Abs   == [k |-> "absent", v |-> 0]
I(n)  == [k |-> "int", v |-> n]
NoInt == [k |-> "noint", v |-> 0]
Huge  == [k |-> "huge", v |-> 0]

ValText(x) ==
    CASE x.k = "int"   -> IF x.v < 0 THEN <<"-">> \o Format(0 - x.v) ELSE Format(x.v)
      [] x.k = "noint" -> <<"n", "/", "a">>
      [] x.k = "huge"  -> <<"9","9","9","9","9","9","9","9","9","9",
                            "9","9","9","9","9","9","9","9","9","9">>
      [] OTHER         -> <<>>

Line(label, x) ==
    IF x.k = "absent" THEN <<>>
    ELSE label \o <<" ">> \o ValText(x) \o <<" ", "k", "B", "\n">>

\* The file, lines in the kernel's order; scFirst puts SwapCached before
\* Cached instead of after it.
Text(c) ==
    Line(MemTotalL, c.mt) \o Line(MemFreeL, c.mf) \o Line(MemAvailableL, c.ma)
    \o Line(BuffersL, c.bu)
    \o (IF c.scFirst THEN Line(SwapCachedL, c.sc) ELSE <<>>)
    \o Line(CachedL, c.ca)
    \o (IF c.scFirst THEN <<>> ELSE Line(SwapCachedL, c.sc))
    \o Line(SwapTotalL, c.st) \o Line(SwapFreeL, c.sf) \o Line(ShmemL, c.sh)

Base == [mt |-> I(100), mf |-> I(100), ma |-> I(50), bu |-> I(20), ca |-> I(50),
         sc |-> Abs, scFirst |-> FALSE, st |-> I(100), sf |-> I(50), sh |-> I(10)]

\* Files of a kernel that provides MemAvailable
NativeBlobs ==
    {[Base EXCEPT !.mt = a, !.ma = d] :
        a \in {Abs, I(0), I(100), I(2047), I(2048), NoInt, I(-1), Huge},
        d \in {I(0), I(50), I(150)}}
    \cup
    {[Base EXCEPT !.st = b, !.sf = c] :
        b \in {Abs, I(0), I(100)},
        c \in {Abs, I(0), I(50)}}
    \cup
    {[Base EXCEPT !.ma = I(-1)]}

\* SwapCached: absent, before Cached, after Cached
SwapCachedPlaces == {<<Abs, FALSE>>, <<I(7), TRUE>>, <<I(7), FALSE>>}

\* Files of a kernel that does not
FallbackBlobs ==
    {[Base EXCEPT !.ma = Abs, !.mt = a, !.sh = e, !.sc = p[1], !.scFirst = p[2]] :
        a \in {I(0), I(100)},
        e \in {I(10), I(200)},
        p \in SwapCachedPlaces}
    \cup
    {[Base EXCEPT !.ma = Abs, ![f] = Abs, !.sc = p[1], !.scFirst = p[2]] :
        f \in {"mf", "ca", "bu", "sh"},
        p \in SwapCachedPlaces}

Blobs == NativeBlobs \cup FallbackBlobs

\* io: "ok" (the file delivers Text(cfg)), "readfail" (the read yields no
\* byte), "openfail" (fopen returns NULL)
Src(io, c) == [io |-> io, cfg |-> c]

Sources == {Src("ok", c) : c \in Blobs} \cup {Src("readfail", Base), Src("openfail", Base)}

Content(s) == IF s.io = "ok" THEN Text(s.cfg) ELSE <<>>

----------------------------------------------------------------------------
(* parse_meminfo *)

BufSize == 8192

NullFd == [open |-> FALSE, pos |-> 0]

ZeroSnap == [MemTotalKiB |-> 0, MemTotalMiB |-> 0, MemAvailableMiB |-> 0,
             MemAvailablePercent |-> 0, SwapTotalKiB |-> 0, SwapTotalMiB |-> 0,
             SwapFreeMiB |-> 0, SwapFreePercent |-> 0]

\* if (fd == NULL) fd = fopen("/proc/meminfo", "r");
fopen_once(f, s) ==
    IF ~f.open /\ s.io # "openfail" THEN [open |-> TRUE, pos |-> 0] ELSE f

\* a parse_meminfo that forgets to rewind the reused handle
rewind_forgotten(f) == f

rewind(f) == [f EXCEPT !.pos = 0]

\* a warning that never sets its flag
warn_always(warned) ==
    IF warned = 0 THEN [print |-> TRUE, warned |-> 0]
    ELSE [print |-> FALSE, warned |-> warned]

\* if (guesstimate_warned == 0) { fprintf(stderr, ...); guesstimate_warned = 1; }
warn_once(warned) ==
    IF warned = 0 THEN [print |-> TRUE, warned |-> 1]
    ELSE [print |-> FALSE, warned |-> warned]

\* Outcomes of an integer division by zero: the x86 build traps (SIGFPE), the
\* aarch64 build yields 0, the riscv build yields -1.
DivZeroBuilds == {"trap", "zero", "allones"}

\* m.MemAvailablePercent = MemAvailable * 100 / m.MemTotalKiB;
MemAvailablePercent(MemAvailable, MemTotalKiB, dz) ==
    IF MemTotalKiB = 0
    THEN [trap |-> dz = "trap", val |-> IF dz = "allones" THEN -1 ELSE 0]
    ELSE [trap |-> FALSE, val |-> CDiv(MemAvailable * 100, MemTotalKiB)]

\* a swap percentage that reports a machine without swap as all free
SwapFreePercent_noswap100(SwapFree, SwapTotalKiB) ==
    IF SwapTotalKiB > 0 THEN CDiv(SwapFree * 100, SwapTotalKiB) ELSE 100

\* if (m.SwapTotalKiB > 0) ... else m.SwapFreePercent = 0;
SwapFreePercent(SwapFree, SwapTotalKiB) ==
    IF SwapTotalKiB > 0 THEN CDiv(SwapFree * 100, SwapTotalKiB) ELSE 0

\* Lines 101-105 and the percentages: the snapshot that is returned
Snapshot(MemTotalKiB, SwapTotalKiB, SwapFree, MemAvailable, pct) ==
    [MemTotalKiB         |-> MemTotalKiB,
     SwapTotalKiB        |-> SwapTotalKiB,
     MemAvailablePercent |-> pct,
     SwapFreePercent     |-> SwapFreePercent(SwapFree, SwapTotalKiB),
     MemTotalMiB         |-> CDiv(MemTotalKiB, 1024),
     MemAvailableMiB     |-> CDiv(MemAvailable, 1024),
     SwapTotalMiB        |-> CDiv(SwapTotalKiB, 1024),
     SwapFreeMiB         |-> CDiv(SwapFree, 1024)]

NoCall == [done |-> FALSE, status |-> "none", m |-> ZeroSnap, avail |-> 0,
           fallback |-> FALSE, estimated |-> FALSE, print |-> FALSE,
           wasOpen |-> FALSE]

\* n: calls that read probe (counted up to 2); between: a call that read
\* something else came after the first of them
NoProbe == [n |-> 0, between |-> FALSE, status |-> "none", m |-> ZeroSnap]

\* The end of a call: st is "returned" or how the process ended, f and warned
\* are the statics as the call leaves them, m is the snapshot, and the rest
\* records what the call did (avail: the local MemAvailable; fallback: the
\* branch of line 84 was entered; estimated: available_guesstimate returned;
\* print: the warning was printed).
Finish(st, f, warned, m, avail, fallback, estimated, print) ==
    /\ fd' = f
    /\ guesstimate_warned' = warned
    /\ status' = IF st = "returned" THEN "running" ELSE st
    /\ call' = [done |-> TRUE, status |-> st, m |-> m, avail |-> avail,
                fallback |-> fallback, estimated |-> estimated, print |-> print,
                wasOpen |-> fd.open]
    /\ warnCount' = warnCount + (IF print THEN 1 ELSE 0)
    /\ estCalls' = estCalls + (IF estimated THEN 1 ELSE 0)
    /\ probeSnap' =
          IF meminfo = probe
          THEN IF probeSnap.n = 0
               THEN [n |-> 1, between |-> FALSE, status |-> st, m |-> m]
               ELSE [probeSnap EXCEPT !.n = 2]
          ELSE IF probeSnap.n > 0
               THEN [probeSnap EXCEPT !.between = TRUE]
               ELSE probeSnap

\* Lines 79-107: from the buffer to the snapshot. Each local of the C code is
\* bound once, in the order of the code.
ParseBuf(buf, f) ==
    \E MemTotalKiB \in {get_entry_fatal(MemTotalL, buf)} :
    \E SwapTotalKiB \in {get_entry_fatal(SwapTotalL, buf)} :
    \E SwapFree \in {get_entry_fatal(SwapFreeL, buf)} :
      IF MemTotalKiB.fatal \/ SwapTotalKiB.fatal \/ SwapFree.fatal
      THEN Finish("exit104", f, guesstimate_warned, ZeroSnap, 0, FALSE, FALSE, FALSE)
      ELSE
        \E ma \in {get_entry(MemAvailableL, buf)} :
        \E g \in {IF ma = -1 THEN available_guesstimate(buf)
                  ELSE [fatal |-> FALSE, val |-> ma]} :
          IF g.fatal
          THEN Finish("exit104", f, guesstimate_warned, ZeroSnap, 0, TRUE, FALSE, FALSE)
          ELSE
            \E w \in {IF ma = -1 THEN warn_once(guesstimate_warned)
                      ELSE [print |-> FALSE, warned |-> guesstimate_warned]} :
            \E pct \in {MemAvailablePercent(g.val, MemTotalKiB.val, divZero)} :
              IF pct.trap
              THEN Finish("SIGFPE", f, w.warned, ZeroSnap, g.val, ma = -1, ma = -1,
                          w.print)
              ELSE Finish("returned", f, w.warned,
                          Snapshot(MemTotalKiB.val, SwapTotalKiB.val, SwapFree.val,
                                   g.val, pct.val),
                          g.val, ma = -1, ma = -1, w.print)

\* One call of parse_meminfo() on the current file
ParseMeminfoCall ==
    /\ status = "running"
    /\ ~call.done
    /\ estCalls < MaxCalls
    /\ \E f1 \in {fopen_once(fd, meminfo)} :
         IF ~f1.open
         THEN Finish("exit102", f1, guesstimate_warned, ZeroSnap, 0, FALSE, FALSE, FALSE)
         ELSE
           \E f2 \in {rewind(f1)} :
           \E buf \in {fread(Content(meminfo), f2.pos, BufSize - 1)} :
           \E f3 \in {[f2 EXCEPT !.pos = f2.pos + Len(buf)]} :
             IF Len(buf) = 0
             THEN Finish("exit102", f3, guesstimate_warned, ZeroSnap, 0, FALSE, FALSE,
                         FALSE)
             ELSE ParseBuf(buf, f3)
    /\ UNCHANGED <<meminfo, divZero, probe, entry, page_size, ret>>

\* The kernel changes what /proc/meminfo delivers. A handle that is already
\* open cannot fail to open again.
KernelUpdate(S) ==
    /\ status = "running"
    /\ \E s \in S :
          /\ s.io = "openfail" => ~fd.open
          /\ s # meminfo \/ call.done
          /\ meminfo' = s
    /\ call' = NoCall
    /\ UNCHANGED <<fd, guesstimate_warned, divZero, status, warnCount, estCalls,
                   probe, probeSnap, entry, page_size, ret>>

NoEntry == [key |-> "mt", cfg |-> Base, done |-> FALSE, fatal |-> FALSE, val |-> 0]

NoRet == [fn |-> "none"]

NoSrc == Src("none", Base)

\* The state after program start, before any call
Start ==
    /\ fd = NullFd
    /\ guesstimate_warned = 0
    /\ status = "running"
    /\ call = NoCall
    /\ warnCount = 0
    /\ estCalls = 0
    /\ probeSnap = NoProbe
    /\ page_size = 0
    /\ ret = NoRet

InitMem ==
    /\ Start
    /\ meminfo \in Sources
    /\ divZero \in DivZeroBuilds
    /\ probe = NoSrc
    /\ entry = NoEntry

NextMem == KernelUpdate(Sources) \/ ParseMeminfoCall

SpecMem == InitMem /\ [][NextMem]_vars

\* A few files, for comparing calls that read the same content
IdemSources ==
    {Src("ok", Base),
     Src("ok", [Base EXCEPT !.ma = Abs]),
     Src("ok", [Base EXCEPT !.ma = Abs, !.sh = I(200)]),
     Src("ok", [Base EXCEPT !.mt = I(0)]),
     Src("ok", [Base EXCEPT !.mt = I(2047), !.ma = I(150)]),
     Src("ok", [Base EXCEPT !.ma = Abs, !.sc = I(7), !.scFirst = TRUE]),
     Src("ok", [Base EXCEPT !.st = I(0), !.sf = I(0)])}

InitIdem ==
    /\ Start
    /\ meminfo \in IdemSources
    /\ divZero \in DivZeroBuilds
    /\ probe \in IdemSources
    /\ entry = NoEntry

NextIdem == KernelUpdate(IdemSources) \/ ParseMeminfoCall

SpecIdem == InitIdem /\ [][NextIdem]_vars

----------------------------------------------------------------------------
(* get_entry and get_entry_fatal called on their own *)

LabelOf(key) ==
    CASE key = "mt" -> MemTotalL
      [] key = "mf" -> MemFreeL
      [] key = "ma" -> MemAvailableL
      [] key = "bu" -> BuffersL
      [] key = "ca" -> CachedL
      [] key = "sc" -> SwapCachedL
      [] key = "st" -> SwapTotalL
      [] key = "sf" -> SwapFreeL
      [] key = "sh" -> ShmemL

Keys == {"mt", "mf", "ma", "bu", "ca", "sc", "st", "sf", "sh"}

GetEntryCall ==
    /\ status = "running"
    /\ ~entry.done
    /\ \E buf \in {Text(entry.cfg)} :
          entry' = [entry EXCEPT !.done = TRUE,
                                 !.val = get_entry(LabelOf(entry.key), buf)]
    /\ UNCHANGED <<memVars, status, page_size, ret>>

GetEntryFatalCall ==
    /\ status = "running"
    /\ ~entry.done
    /\ \E buf \in {Text(entry.cfg)} :
       \E r \in {get_entry_fatal(LabelOf(entry.key), buf)} :
           /\ entry' = [entry EXCEPT !.done = TRUE, !.fatal = r.fatal, !.val = r.val]
           /\ status' = IF r.fatal THEN "exit104" ELSE status
    /\ UNCHANGED <<memVars, page_size, ret>>

InitEntry ==
    /\ Start
    /\ meminfo = NoSrc
    /\ divZero = "trap"
    /\ probe = NoSrc
    /\ entry \in {[NoEntry EXCEPT !.key = k, !.cfg = c] : k \in Keys, c \in Blobs}

NextEntry == GetEntryCall \/ GetEntryFatalCall

SpecEntry == InitEntry /\ [][NextEntry]_vars

----------------------------------------------------------------------------
(* Claims about parse_meminfo (SpecMem, SpecIdem) *)

Present(x) == x.k # "absent"

NonNeg(x) == x.k = "int" /\ x.v >= 0

\* the file could not be opened, or the read yielded no byte
CannotRead == meminfo.io \in {"openfail", "readfail"}

\* a mandatory field is absent from the file
MandatoryAbsent ==
    LET c == meminfo.cfg
    IN  \/ ~Present(c.mt) \/ ~Present(c.st) \/ ~Present(c.sf)
        \/ /\ ~Present(c.ma)
           /\ ~Present(c.ca) \/ ~Present(c.mf) \/ ~Present(c.bu) \/ ~Present(c.sh)

FourFallbackFields ==
    LET c == meminfo.cfg
    IN  NonNeg(c.mf) /\ NonNeg(c.ca) /\ NonNeg(c.bu) /\ NonNeg(c.sh)

\* a file with MemTotal, SwapTotal, SwapFree and either MemAvailable or the
\* four fallback fields, all with non-negative integer values
ValidBlob ==
    LET c == meminfo.cfg
    IN  /\ meminfo.io = "ok"
        /\ NonNeg(c.mt) /\ NonNeg(c.st) /\ NonNeg(c.sf)
        /\ NonNeg(c.ma) \/ (~Present(c.ma) /\ FourFallbackFields)

\* every field of the file is absent or holds a non-negative integer
WellFormed ==
    \A k \in {"mt", "mf", "ma", "bu", "ca", "sc", "st", "sf", "sh"} :
        ~Present(meminfo.cfg[k]) \/ NonNeg(meminfo.cfg[k])

\* C1 (as claimed): on a file whose fields hold non-negative integers, a call
\* ends the process with code 102 exactly when the file cannot be opened or
\* read, with code 104 exactly when a mandatory field is absent, and returns
\* a snapshot in every other case.
C1_TwoExitKinds ==
    (call.done /\ WellFormed) =>
        /\ (call.status = "exit102") = CannotRead
        /\ (call.status = "exit104") = (~CannotRead /\ MandatoryAbsent)
        /\ (call.status = "returned") = (~CannotRead /\ ~MandatoryAbsent)

\* C2 (as claimed): without a MemAvailable field and with the four fallback
\* fields, the available memory used is MemFree + Cached + Buffers - Shmem of
\* the fields of those exact names, wherever SwapCached stands.
C2_FallbackSum ==
    (call.done /\ call.status = "returned" /\ call.estimated /\ meminfo.io = "ok"
       /\ ~Present(meminfo.cfg.ma) /\ FourFallbackFields)
    => call.avail = meminfo.cfg.mf.v + meminfo.cfg.ca.v + meminfo.cfg.bu.v
                    - meminfo.cfg.sh.v

\* C3: the MemAvailable warning has been printed exactly once if some call
\* has estimated (its fallback estimator returned) and never otherwise, and a
\* call prints it exactly when it is the first call that estimates.
C3_WarnOnce ==
    /\ warnCount = (IF estCalls > 0 THEN 1 ELSE 0)
    /\ call.done => (call.print = (call.estimated /\ estCalls = 1))

\* estimation recurred, and the later call printed nothing
C3_Witness ==
    call.done /\ call.estimated /\ ~call.print /\ estCalls >= 2 /\ warnCount = 1

\* C4 (as claimed): for a valid file (here: with MemTotal > 0) the returned
\* snapshot has mem_available_percent in [0,100] whenever
\* available <= mem_total, and swap_free_percent = 0 if and only if
\* swap_total_kib = 0.
C4_AsClaimed ==
    (call.done /\ call.status = "returned" /\ ValidBlob /\ call.m.MemTotalKiB > 0) =>
        /\ call.avail <= call.m.MemTotalKiB => call.m.MemAvailablePercent \in 0..100
        /\ (call.m.SwapFreePercent = 0) = (call.m.SwapTotalKiB = 0)

\* C4 (amended): for a valid file the returned snapshot has
\* mem_available_percent in [0,100] whenever mem_total > 0 and
\* 0 <= available <= mem_total; swap_free_percent = 0 whenever
\* swap_total_kib = 0; and with swap_total_kib > 0, swap_free_percent = 0
\* exactly when SwapFree * 100 < SwapTotal.
C4_Percentages ==
    (call.done /\ call.status = "returned" /\ ValidBlob) =>
        /\ (call.m.MemTotalKiB > 0 /\ 0 <= call.avail
              /\ call.avail <= call.m.MemTotalKiB)
           => call.m.MemAvailablePercent \in 0..100
        /\ call.m.SwapTotalKiB = 0 => call.m.SwapFreePercent = 0
        /\ call.m.SwapTotalKiB > 0 =>
              ((call.m.SwapFreePercent = 0)
                 = (meminfo.cfg.sf.v * 100 < call.m.SwapTotalKiB))

\* a snapshot returned for a machine without swap
C4_Witness ==
    /\ call.done /\ call.status = "returned" /\ ValidBlob
    /\ call.m.SwapTotalKiB = 0 /\ call.m.SwapFreePercent = 0
    /\ call.m.MemTotalKiB > 0 /\ call.avail <= call.m.MemTotalKiB
    /\ call.m.MemAvailablePercent \in 0..100

\* C7: a call that reads the probed content ends as the first call that read
\* it did, with the same snapshot, whatever was read in between.
C7_Idempotent ==
    (call.done /\ meminfo = probe /\ probeSnap.n >= 1) =>
        /\ call.status = probeSnap.status
        /\ call.m = probeSnap.m

\* the probed content was read a second time, after another content, on the
\* fallback path and with the warning already printed
C7_Witness ==
    /\ call.done /\ meminfo = probe /\ probeSnap.n = 2 /\ probeSnap.between
    /\ call.status = "returned" /\ call.fallback /\ ~call.print

\* C10 (as claimed): a file that was opened and read and holds all mandatory
\* fields with non-negative values, MemTotal = 0 included, yields a returned
\* snapshot without any division by zero.
C10_AlwaysSnapshot ==
    (call.done /\ ValidBlob) =>
        /\ call.status = "returned"
        /\ call.m.MemTotalKiB # 0

----------------------------------------------------------------------------
(* Claims about get_entry (SpecEntry) *)

\* the line that holds the first occurrence of the label of key
FirstField(key, c) ==
    IF key = "ca" /\ Present(c.sc) /\ (c.scFirst \/ ~Present(c.ca))
    THEN c.sc ELSE c[key]

\* C9 (as claimed): get_entry signals "not found" (-1, fatal in
\* get_entry_fatal) when the label does not occur or no integer follows its
\* first occurrence; otherwise it returns the integer that follows, and
\* get_entry_fatal does not take that result for "not found".
C9_NotFound ==
    entry.done =>
        LET x == FirstField(entry.key, entry.cfg)
        IN  /\ x.k \in {"absent", "noint"} => entry.val = -1
            /\ x.k = "int" => entry.val = x.v
            /\ x.k \in {"int", "huge"} => ~entry.fatal

----------------------------------------------------------------------------
(* fscanf on the per-process files *)

\* One %d, %u or %ld directive at index i of s: white space is skipped, then
\* an optional sign and digits are taken. res is "eof" when the input ends
\* before any byte of the number, "nomatch" when no digit is there.
ScanInt(s, i) ==
    LET j == SkipSpace(s, i)
        k == IF j <= Len(s) /\ s[j] \in {"-", "+"} THEN j + 1 ELSE j
        e == SkipDigits(s, k)
    IN  IF j > Len(s) THEN [res |-> "eof", val |-> 0, next |-> j]
        ELSE IF e = k THEN [res |-> "nomatch", val |-> 0, next |-> k]
        ELSE [res |-> "ok", next |-> e,
              val |-> IF s[j] = "-" THEN 0 - DigitsValue(SubSeq(s, k, e - 1))
                      ELSE DigitsValue(SubSeq(s, k, e - 1))]

\* fscanf(f, "%*d %*s %c", &state): the return value (EOF is -1) and the byte
\* stored in state
fscanf_stat(s) ==
    LET d == ScanInt(s, 1)
        a == SkipSpace(s, d.next)
        b == SkipNonSpace(s, a)
        c == SkipSpace(s, b)
    IN  IF d.res = "eof" THEN [res |-> -1, state |-> "?"]
        ELSE IF d.res = "nomatch" THEN [res |-> 0, state |-> "?"]
        ELSE IF a > Len(s) \/ c > Len(s) THEN [res |-> -1, state |-> "?"]
        ELSE [res |-> 1, state |-> s[c]]

\* fscanf(f, "%d", out): matches and the value stored
fscanf_d(s) ==
    LET d == ScanInt(s, 1)
    IN  [matches |-> IF d.res = "ok" THEN 1 ELSE IF d.res = "eof" THEN -1 ELSE 0,
         val |-> d.val]

\* fscanf(f, "%*u %ld", &vm_rss_kib): matches and the value stored
fscanf_statm(s) ==
    LET u == ScanInt(s, 1)
        l == ScanInt(s, u.next)
    IN  IF u.res = "eof" THEN [matches |-> -1, val |-> 0]
        ELSE IF u.res = "nomatch" THEN [matches |-> 0, val |-> 0]
        ELSE [matches |-> IF l.res = "ok" THEN 1 ELSE IF l.res = "eof" THEN -1 ELSE 0,
              val |-> l.val]

----------------------------------------------------------------------------
(* The per-process files *)

\* /proc/[pid]/stat: "pid (name) state ppid ...", or a file cut short
StatAlphabet == {"a", "Z", " ", ")"}

StatNames == UNION {[1..n -> StatAlphabet] : n \in 1..MaxStatName}

StatSources ==
    {[exists |-> TRUE, fields |-> "full", name |-> nm, state |-> st] :
        nm \in StatNames, st \in {"R", "S", "Z"}}
    \cup {[exists |-> TRUE, fields |-> f, name |-> <<"a">>, state |-> "R"] :
            f \in {"empty", "pid", "name"}}
    \cup {[exists |-> FALSE, fields |-> "full", name |-> <<"a">>, state |-> "R"]}

StatText(src) ==
    CASE src.fields = "empty" -> <<>>
      [] src.fields = "pid"   -> <<"4", "2", "\n">>
      [] src.fields = "name"  -> <<"4", "2", " ", "(">> \o src.name \o <<")", "\n">>
      [] OTHER -> <<"4", "2", " ", "(">> \o src.name
                  \o <<")", " ", src.state, " ", "1", " ", "4", "2", "\n">>

\* /proc/[pid]/oom_score, /proc/[pid]/oom_score_adj
IntSources ==
    {[exists |-> FALSE, kind |-> "int", v |-> 0],
     [exists |-> TRUE, kind |-> "empty", v |-> 0],
     [exists |-> TRUE, kind |-> "junk", v |-> 0]}
    \cup {[exists |-> TRUE, kind |-> "int", v |-> n] : n \in {0, 42, 1000, -17, -1000}}

SignedText(n) == IF n < 0 THEN <<"-">> \o Format(0 - n) ELSE Format(n)

IntText(src) ==
    CASE src.kind = "empty" -> <<>>
      [] src.kind = "junk"  -> <<"x", "\n">>
      [] OTHER              -> SignedText(src.v) \o <<"\n">>

\* /proc/[pid]/statm: "size resident shared ...", or fewer fields
StatmSources ==
    {[exists |-> FALSE, kind |-> "full", pages |-> 0],
     [exists |-> TRUE, kind |-> "empty", pages |-> 0],
     [exists |-> TRUE, kind |-> "one", pages |-> 0],
     [exists |-> TRUE, kind |-> "junk", pages |-> 0]}
    \cup {[exists |-> TRUE, kind |-> "full", pages |-> n] : n \in {0, 1, 25, 300}}

StatmText(src) ==
    CASE src.kind = "empty" -> <<>>
      [] src.kind = "one"   -> <<"1", "0", "0", "\n">>
      [] src.kind = "junk"  -> <<"1", "0", "0", " ", "x", "\n">>
      [] OTHER -> <<"1", "0", "0", "0", " ">> \o Format(src.pages)
                  \o <<" ", "3", "\n">>

\* sysconf(_SC_PAGESIZE)
PageSizes == {4096, 65536}

\* /proc/[pid]: stat() fails, or the owner
UidSources == {[exists |-> FALSE, uid |-> 0]}
              \cup {[exists |-> TRUE, uid |-> u] : u \in {0, 1000}}

\* /proc/[pid]/comm: the name (at most TaskCommLen - 1 bytes) and a newline.
\* "C3" and "A9" stand for the two bytes of one UTF-8 character.
TaskCommLen == 16

Letters == <<"a","b","c","d","e","f","g","h","i","j","k","l","m","n","o">>

CommNames ==
    {SubSeq(Letters, 1, n) : n \in 1..(TaskCommLen - 1)}
    \cup {SubSeq(Letters, 1, n - 2) \o <<"C3", "A9">> : n \in 2..(TaskCommLen - 1)}

CommSources ==
    {[exists |-> TRUE, kind |-> "name", name |-> nm] : nm \in CommNames}
    \cup {[exists |-> TRUE, kind |-> k, name |-> <<>>] :
            k \in {"empty", "newline"}}
    \cup {[exists |-> FALSE, kind |-> "name", name |-> <<"a">>]}

CommText(src) ==
    CASE src.kind = "empty"   -> <<>>
      [] src.kind = "newline" -> <<"\n">>
      [] OTHER                -> src.name \o <<"\n">>

\* capacities the callers pass
OutLens == {16, 256}

----------------------------------------------------------------------------
(* The per-process accessors *)

is_alive(src, text) ==
    IF ~src.exists THEN FALSE
    ELSE LET r == fscanf_stat(text)
         IN  IF r.res < 1 THEN FALSE
             ELSE IF r.state = "Z" THEN FALSE
             ELSE TRUE

\* a read_proc_file_integer that takes a file it cannot open for success
read_proc_file_integer_noopen(src, text, out) ==
    LET r == fscanf_d(text)
    IN  IF ~src.exists THEN [res |-> 0, out |-> out]
        ELSE IF r.matches # 1 THEN [res |-> -1, out |-> out]
        ELSE [res |-> 0, out |-> r.val]

\* out is *out before the call; the result holds *out after it
read_proc_file_integer(src, text, out) ==
    LET r == fscanf_d(text)
    IN  IF ~src.exists THEN [res |-> -1, out |-> out]
        ELSE IF r.matches # 1 THEN [res |-> -1, out |-> out]
        ELSE [res |-> 0, out |-> r.val]

get_oom_score(src, text) ==
    LET r == read_proc_file_integer(src, text, 0)
    IN  IF r.res = -1 THEN -1 ELSE r.out

get_oom_score_adj(src, text, out) == read_proc_file_integer(src, text, out)

IsLead(b) == b \in {"C3"}

\* The sanitizer of get_comm's result: a name that ends in the first byte of
\* a multi-byte character loses that byte.
fix_truncated_utf8(str) ==
    IF Len(str) > 0 /\ IsLead(str[Len(str)]) THEN SubSeq(str, 1, Len(str) - 1)
    ELSE str

\* cut is the byte that out[n - 1] = 0 overwrites
get_comm(src, text, outlen) ==
    IF ~src.exists THEN [res |-> -1, out |-> <<>>, cut |-> ""]
    ELSE LET rd == fread(text, 0, outlen - 1)
             n  == Len(rd)
         IN  IF n < 2 THEN [res |-> -1, out |-> <<>>, cut |-> ""]
             ELSE [res |-> 0, out |-> fix_truncated_utf8(SubSeq(rd, 1, n - 1)),
                   cut |-> rd[n]]

get_uid(src) == IF ~src.exists THEN -1 ELSE src.uid

\* ps is the cached page size, sys what sysconf would return
get_vm_rss_kib(src, text, ps, sys) ==
    LET r   == fscanf_statm(text)
        ps1 == IF ps = 0 THEN sys ELSE ps
    IN  IF ~src.exists THEN [val |-> -1, page_size |-> ps]
        ELSE IF r.matches < 1 THEN [val |-> -1, page_size |-> ps]
        ELSE [val |-> CDiv(r.val * ps1, 1024), page_size |-> ps1]

Ret(fn, src, val, out) == [fn |-> fn, src |-> src, val |-> val, out |-> out]

IsAliveCall ==
    /\ status = "running"
    /\ \E src \in StatSources : \E text \in {StatText(src)} :
          ret' = Ret("is_alive", src, is_alive(src, text), <<>>)
    /\ UNCHANGED <<memVars, status, entry, page_size>>

GetOomScoreCall ==
    /\ status = "running"
    /\ \E src \in IntSources : \E text \in {IntText(src)} :
          ret' = Ret("get_oom_score", src, get_oom_score(src, text), <<>>)
    /\ UNCHANGED <<memVars, status, entry, page_size>>

GetOomScoreAdjCall ==
    /\ status = "running"
    /\ \E src \in IntSources : \E text \in {IntText(src)} : \E out \in {0, 7} :
       \E r \in {get_oom_score_adj(src, text, out)} :
          ret' = Ret("get_oom_score_adj", src, r.res, <<out, r.out>>)
    /\ UNCHANGED <<memVars, status, entry, page_size>>

GetCommCall ==
    /\ status = "running"
    /\ \E src \in CommSources : \E text \in {CommText(src)} : \E outlen \in OutLens :
       \E r \in {get_comm(src, text, outlen)} :
          ret' = Ret("get_comm", src, r.res,
                     <<outlen, r.out, r.cut>>)
    /\ UNCHANGED <<memVars, status, entry, page_size>>

GetUidCall ==
    /\ status = "running"
    /\ \E src \in UidSources :
          ret' = Ret("get_uid", src, get_uid(src), <<>>)
    /\ UNCHANGED <<memVars, status, entry, page_size>>

GetVmRssKibCall ==
    /\ status = "running"
    /\ \E src \in StatmSources : \E text \in {StatmText(src)} : \E sys \in PageSizes :
       \E r \in {get_vm_rss_kib(src, text, page_size, sys)} :
          /\ ret' = Ret("get_vm_rss_kib", src, r.val, <<>>)
          /\ page_size' = r.page_size
    /\ UNCHANGED <<memVars, status, entry>>

InitProc ==
    /\ Start
    /\ meminfo = NoSrc
    /\ divZero = "trap"
    /\ probe = NoSrc
    /\ entry = NoEntry

NextProc ==
    \/ IsAliveCall
    \/ GetOomScoreCall
    \/ GetOomScoreAdjCall
    \/ GetCommCall
    \/ GetUidCall
    \/ GetVmRssKibCall

SpecProc == InitProc /\ [][NextProc]_vars

----------------------------------------------------------------------------
(* Claims about the per-process accessors (SpecProc) *)

\* C5 (as claimed): is_alive is false when the stat file cannot be opened or
\* the state is 'Z', and true for every other state, whatever the name holds.
C5_IsAlive ==
    (ret.fn = "is_alive" /\ (~ret.src.exists \/ ret.src.fields = "full")) =>
        ret.val = (ret.src.exists /\ ret.src.state # "Z")

\* the source of the last call is missing or holds fewer fields than expected
Unavailable ==
    \/ ~ret.src.exists
    \/ ret.fn = "is_alive" /\ ret.src.fields # "full"
    \/ ret.fn \in {"get_oom_score", "get_oom_score_adj"} /\ ret.src.kind = "empty"
    \/ ret.fn = "get_comm" /\ ret.src.kind \in {"empty", "newline"}
    \/ ret.fn = "get_vm_rss_kib" /\ ret.src.kind \in {"empty", "one"}

\* C6: an accessor whose source is missing or holds fewer fields than
\* expected returns its failure value (false for is_alive, -1 for the
\* others), and no accessor call ends the process.
C6_Unavailable ==
    /\ status = "running"
    /\ (ret.fn # "none" /\ Unavailable) =>
          IF ret.fn = "is_alive" THEN ret.val = FALSE ELSE ret.val = -1

\* an accessor met a source that is not there
C6_Witness ==
    /\ ret.fn = "get_oom_score" /\ ~ret.src.exists /\ ret.val = -1
    /\ status = "running"

\* C8 (as claimed): with capacity 16, a name of 1 to 15 bytes followed by a
\* newline is returned whole and without the newline, the byte overwritten
\* by the terminator is the newline, and a read of fewer than 2 bytes fails.
C8_GetComm ==
    (ret.fn = "get_comm" /\ ret.src.exists /\ ret.out[1] = 16) =>
        IF ret.src.kind = "name"
        THEN ret.val = 0 /\ ret.out[2] = ret.src.name /\ ret.out[3] = "\n"
        ELSE ret.val = -1

====
